---- MODULE Spec2Model ----
(***************************************************************************)
(* Aiken2QTI: the Aiken text parser (AikenParser.parse_file), the Question *)
(* record and its validation, the QTI item and manifest generator and the  *)
(* package builder (PackageBuilder.build_package) of src/aiken2qti.py.     *)
(*                                                                         *)
(* A text (a line, a question text, an option text) is a sequence of       *)
(* one-character strings.  A dict is a sequence of <<key, value>> pairs    *)
(* with distinct keys, in insertion order.                                 *)
(***************************************************************************)
EXTENDS Integers, Sequences, FiniteSets, TLC

VARIABLES
    \* ---- AikenParser.parse_file ----
    source_blocks,          \* the blocks the file was written from (<<>> for a free-form file)
    file_lines,             \* the lines of the input file, as f.readlines() returns them (newline dropped)
    lines,                  \* lines: each line of the file, stripped
    line_number,            \* line_number: the lines consumed so far
    questions,              \* questions: the records produced so far; the return value when pc = "done"
    current_question_text,  \* current_question_text
    current_options,        \* current_options
    pc,                     \* position in parse_file: "start", "loop", "done" ("idle": not running)
    \* ---- a Question instance held by a caller ----
    instance,               \* the instance (NoQuestion: none exists)
    instance_raised,        \* the last Question(...) call raised ValueError
    \* ---- PackageBuilder.build_package ----
    builds,                 \* the build_package calls made on the PackageBuilder so far
    build_questions,        \* questions: the list build_package is called with
    output_filename,        \* output_filename: the requested archive name
    temp_dir,               \* output_dir / "temp_qti_build": whether it exists, and its files
    output_dir,             \* the other files of output_dir: <<name, archive>> pairs
    resources,              \* resources: (item_id, filename) pairs
    index,                  \* the questions handled so far by the loop of build_package
    question,               \* question: the loop variable of build_package
    xml_content,            \* xml_content: the item XML generated last
    output_path,            \* output_path: the path build_package returns
    error,                  \* the exception in flight or raised ("": none)
    bpc,                    \* position in build_package
    \* ---- main ----
    args,                   \* args: the parsed command line
    input_kind,             \* what args.input_file names on disk (its lines are file_lines)
    sample_written,         \* create_sample_file has written the sample file
    caught,                 \* the exception that ended main's try block ("": none)
    exit_code,              \* the value main returns or exits with (NoExit: still running)
    mpc,                    \* position in main
    \* ---- calls of QTIGenerator._safe_title and of the file name format ----
    title_text,             \* text
    title_max_length,       \* max_length
    title,                  \* the value _safe_title returned (NoTitle: not called yet)
    name_index,             \* index
    name_result             \* filename (<<>>: not formatted yet)

parserVars == <<source_blocks, file_lines, lines, line_number, questions,
                current_question_text, current_options, pc>>

questionVars == <<instance, instance_raised>>

builderVars == <<builds, build_questions, output_filename, temp_dir, output_dir, resources,
                 index, question, xml_content, output_path, error, bpc>>

mainVars == <<args, input_kind, sample_written, caught, exit_code, mpc>>

callVars == <<title_text, title_max_length, title, name_index, name_result>>

vars == <<parserVars, questionVars, builderVars, mainVars, callVars>>

-----------------------------------------------------------------------------
(* Characters and str methods                                              *)

UpperLetters == <<"A","B","C","D","E","F","G","H","I","J","K","L","M",
                  "N","O","P","Q","R","S","T","U","V","W","X","Y","Z">>

LowerLetters == <<"a","b","c","d","e","f","g","h","i","j","k","l","m",
                  "n","o","p","q","r","s","t","u","v","w","x","y","z">>

\* [A-Z] of a pattern compiled without flags
IsUpperAZ(c) == \E i \in DOMAIN UpperLetters : UpperLetters[i] = c

\* [A-Z] of a pattern compiled with re.IGNORECASE
IsLetterAZ(c) == IsUpperAZ(c) \/ \E i \in DOMAIN LowerLetters : LowerLetters[i] = c

\* str.upper() of one character
UpperChar(c) ==
    IF \E i \in DOMAIN LowerLetters : LowerLetters[i] = c
    THEN UpperLetters[CHOOSE i \in DOMAIN LowerLetters : LowerLetters[i] = c]
    ELSE c

\* str.upper()
Upper(s) == [i \in DOMAIN s |-> UpperChar(s[i])]

\* the whitespace of str.strip() and of \s
IsSpace(c) == c \in {" ", "\t", "\f"}

RECURSIVE LStrip(_)
LStrip(s) == IF s # <<>> /\ IsSpace(Head(s)) THEN LStrip(Tail(s)) ELSE s

RECURSIVE RStrip(_)
RStrip(s) ==
    IF s # <<>> /\ IsSpace(s[Len(s)]) THEN RStrip(SubSeq(s, 1, Len(s) - 1)) ELSE s

\* str.strip()
Strip(s) == LStrip(RStrip(s))

-----------------------------------------------------------------------------
(* dict                                                                    *)

DictKeys(d) == [i \in DOMAIN d |-> d[i][1]]

DictKeySet(d) == {d[i][1] : i \in DOMAIN d}

\* key in d
DictHas(d, k) == k \in DictKeySet(d)

\* d[k]
DictGet(d, k) == d[CHOOSE i \in DOMAIN d : d[i][1] = k][2]

\* del d[k]
DictDel(d, k) == SelectSeq(d, LAMBDA e : e[1] # k)

\* an assignment that leaves an existing key alone
DictSet_keepfirst(d, k, v) == IF DictHas(d, k) THEN d ELSE Append(d, <<k, v>>)

\* d[k] = v: an existing key keeps its place, a new key goes last
DictSet(d, k, v) ==
    IF DictHas(d, k)
    THEN [i \in DOMAIN d |-> IF d[i][1] = k THEN <<k, v>> ELSE d[i]]
    ELSE Append(d, <<k, v>>)

-----------------------------------------------------------------------------
(* Question                                                                *)

\* __post_init__ without the test of the answer
QuestionValid_anyanswer(text, options, answer) ==
    /\ Strip(text) # <<>>
    /\ options # <<>>

\* the checks of Question.__post_init__: TRUE when no ValueError is raised
QuestionValid(text, options, answer) ==
    /\ Strip(text) # <<>>
    /\ options # <<>>
    /\ DictHas(options, answer)

Question(text, options, answer) ==
    [text |-> text, options |-> options, answer |-> answer]

NoQuestion == [text |-> <<>>, options |-> <<>>, answer |-> "", none |-> TRUE]

-----------------------------------------------------------------------------
(* AikenParser: the two patterns                                           *)

ANSWER_KEYWORD == <<"A","N","S","W","E","R",":">>

\* answer_pattern.match(line): ^ANSWER:\s*([A-Z])$ with re.IGNORECASE
AnswerMatch(line) ==
    /\ Len(line) >= Len(ANSWER_KEYWORD) + 1
    /\ Upper(SubSeq(line, 1, Len(ANSWER_KEYWORD))) = ANSWER_KEYWORD
    /\ \A i \in (Len(ANSWER_KEYWORD) + 1)..(Len(line) - 1) : IsSpace(line[i])
    /\ IsLetterAZ(line[Len(line)])

\* answer_match.group(1)
AnswerGroup1(line) == line[Len(line)]

\* option_pattern.match(line): ^([A-Z])[\)\.]\s+(.+)$
OptionMatch(line) ==
    /\ Len(line) >= 4
    /\ IsUpperAZ(line[1])
    /\ line[2] \in {")", "."}
    /\ IsSpace(line[3])

\* option_match.group(1)
OptionGroup1(line) == line[1]

\* the number of whitespace characters of s from position i on
RECURSIVE SpaceRun(_, _)
SpaceRun(s, i) == IF i <= Len(s) /\ IsSpace(s[i]) THEN 1 + SpaceRun(s, i + 1) ELSE 0

\* option_match.group(2): \s+ is greedy and leaves .+ at least one character
OptionGroup2(line) ==
    LET n == SpaceRun(line, 3)
    IN IF 2 + n < Len(line)
       THEN SubSeq(line, 3 + n, Len(line))
       ELSE SubSeq(line, Len(line), Len(line))

-----------------------------------------------------------------------------
(* AikenParser.parse_file: one pass of the loop body                       *)

\* the answer letter taken as written, without .upper()
AnswerLetter_raw(line) == AnswerGroup1(line)

\* answer = answer_match.group(1).upper()
AnswerLetter(line) == UpperChar(AnswerGroup1(line))

\* the branch of the loop body a line takes, given the accumulated state
LineKind(text, options, line) ==
    IF line = <<>> THEN "blank"
    ELSE IF AnswerMatch(line) THEN
        IF text = <<>> THEN "answer_without_question"
        ELSE IF options = <<>> THEN "answer_without_options"
        ELSE IF QuestionValid(Strip(text), options, AnswerLetter(line))
             THEN "answer_accepted"
             ELSE "answer_rejected"
    ELSE IF OptionMatch(line) THEN "option"
    ELSE "text"

\* the text lines concatenated without the separating space
JoinText_nospace(text, line) == IF text # <<>> THEN text \o line ELSE line

\* current_question_text after a text line
JoinText(text, line) == IF text # <<>> THEN text \o <<" ">> \o line ELSE line

\* the loop body with the new record put first instead of last
ScanLine_prepend(st, line) ==
    LET kind == LineKind(st.text, st.options, line)
    IN CASE kind = "answer_accepted" ->
              [questions |-> <<Question(Strip(st.text), st.options, AnswerLetter(line))>>
                             \o st.questions,
               text |-> <<>>, options |-> <<>>]
         [] kind = "answer_rejected" ->
              [questions |-> st.questions, text |-> <<>>, options |-> <<>>]
         [] kind = "option" ->
              [st EXCEPT !.options = DictSet(@, OptionGroup1(line), OptionGroup2(line))]
         [] kind = "text" ->
              [st EXCEPT !.text = JoinText(@, line)]
         [] OTHER -> st

\* the loop body without the reset after a rejected Question
ScanLine_noreset(st, line) ==
    LET kind == LineKind(st.text, st.options, line)
    IN CASE kind = "answer_accepted" ->
              [questions |-> Append(st.questions,
                                    Question(Strip(st.text), st.options, AnswerLetter(line))),
               text |-> <<>>, options |-> <<>>]
         [] kind = "option" ->
              [st EXCEPT !.options = DictSet(@, OptionGroup1(line), OptionGroup2(line))]
         [] kind = "text" ->
              [st EXCEPT !.text = JoinText(@, line)]
         [] OTHER -> st

\* the loop body with a reset where an ANSWER line is discarded
ScanLine_discardreset(st, line) ==
    LET kind == LineKind(st.text, st.options, line)
    IN CASE kind = "answer_accepted" ->
              [questions |-> Append(st.questions,
                                    Question(Strip(st.text), st.options, AnswerLetter(line))),
               text |-> <<>>, options |-> <<>>]
         [] kind \in {"answer_rejected", "answer_without_question", "answer_without_options"} ->
              [questions |-> st.questions, text |-> <<>>, options |-> <<>>]
         [] kind = "option" ->
              [st EXCEPT !.options = DictSet(@, OptionGroup1(line), OptionGroup2(line))]
         [] kind = "text" ->
              [st EXCEPT !.text = JoinText(@, line)]
         [] OTHER -> st

\* the loop body with a blank line ending the block
ScanLine_blankcloses(st, line) ==
    LET kind == LineKind(st.text, st.options, line)
    IN CASE kind = "answer_accepted" ->
              [questions |-> Append(st.questions,
                                    Question(Strip(st.text), st.options, AnswerLetter(line))),
               text |-> <<>>, options |-> <<>>]
         [] kind \in {"answer_rejected", "blank"} ->
              [questions |-> st.questions, text |-> <<>>, options |-> <<>>]
         [] kind = "option" ->
              [st EXCEPT !.options = DictSet(@, OptionGroup1(line), OptionGroup2(line))]
         [] kind = "text" ->
              [st EXCEPT !.text = JoinText(@, line)]
         [] OTHER -> st

\* the scanner state (questions, current_question_text, current_options)
\* after the loop body has run on one line
ScanLine(st, line) ==
    LET kind == LineKind(st.text, st.options, line)
    IN CASE kind = "answer_accepted" ->
              [questions |-> Append(st.questions,
                                    Question(Strip(st.text), st.options, AnswerLetter(line))),
               text |-> <<>>, options |-> <<>>]
         [] kind = "answer_rejected" ->
              [questions |-> st.questions, text |-> <<>>, options |-> <<>>]
         [] kind = "option" ->
              [st EXCEPT !.options = DictSet(@, OptionGroup1(line), OptionGroup2(line))]
         [] kind = "text" ->
              [st EXCEPT !.text = JoinText(@, line)]
         [] OTHER -> st

\* the state before the loop
ScanStart == [questions |-> <<>>, text |-> <<>>, options |-> <<>>]

\* a pending question with text and options completed with its first option
FinalQuestions_complete(qs, text, options) ==
    IF text # <<>> /\ options # <<>>
    THEN Append(qs, Question(Strip(text), options, options[1][1]))
    ELSE qs

\* the list parse_file returns once the loop has ended: a pending question
\* without ANSWER is only reported
FinalQuestions(qs, text, options) == qs

\* lines = [line.strip() for line in f.readlines()]
StripLines(raw) == [i \in DOMAIN raw |-> Strip(raw[i])]

-----------------------------------------------------------------------------
(* QTIGenerator                                                            *)

\* the position of an upper-case letter in the alphabet: the order sorted() uses
LetterRank(c) == CHOOSE i \in DOMAIN UpperLetters : UpperLetters[i] = c

\* sorted(keys)
RECURSIVE SortedLetters(_)
SortedLetters(S) ==
    IF S = {} THEN <<>>
    ELSE LET m == CHOOSE x \in S : \A y \in S : LetterRank(x) <= LetterRank(y)
         IN <<m>> \o SortedLetters(S \ {m})

DefaultMaxLength == 50

\* re.sub(r'[<>&"]', "", text)
RECURSIVE RemoveMarkup(_)
RemoveMarkup(text) ==
    IF text = <<>> THEN <<>>
    ELSE IF Head(text) \in {"<", ">", "&", "\""} THEN RemoveMarkup(Tail(text))
    ELSE <<Head(text)>> \o RemoveMarkup(Tail(text))

\* _safe_title cutting without the suffix
SafeTitle_nosuffix(text, max_length) ==
    LET safe_text == RemoveMarkup(text)
        cut == IF Len(safe_text) > max_length
               THEN SubSeq(safe_text, 1, max_length)
               ELSE safe_text
    IN IF cut # <<>> THEN cut ELSE <<"Pregunta sin título">>

\* QTIGenerator._safe_title
SafeTitle(text, max_length) ==
    LET safe_text == RemoveMarkup(text)
        cut == IF Len(safe_text) > max_length
               THEN SubSeq(safe_text, 1, max_length) \o <<".", ".", ".">>
               ELSE safe_text
    IN IF cut # <<>> THEN cut ELSE <<"Pregunta sin título">>

\* a character XML 1.0 does not allow: minidom.parseString rejects the document
XmlIllegal(c) == c = "\f"

HasXmlIllegal(text) == \E i \in DOMAIN text : XmlIllegal(text[i])

\* generate_item_xml raises (ExpatError, line 258) instead of returning
ItemXmlRaises(item) ==
    \/ HasXmlIllegal(item.text)
    \/ \E i \in DOMAIN item.options : HasXmlIllegal(item.options[i][2])

\* the choice identifier without the option letter
ChoiceId_noletter(letter, hex8) == <<"Choice_", hex8>>

\* f"Choice_{letter}_{uuid.uuid4().hex[:8]}"
ChoiceId(letter, hex8) == <<"Choice_", letter, "_", hex8>>

\* QTIGenerator.generate_item_xml; hex8 gives, per option letter, the random
\* suffix uuid4 produced for it
ItemXml(item, item_id, hex8) ==
    LET option_ids == [letter \in DictKeySet(item.options) |-> ChoiceId(letter, hex8[letter])]
        sorted == SortedLetters(DictKeySet(item.options))
    IN [kind |-> "assessmentItem",
        identifier |-> item_id,
        title |-> SafeTitle(item.text, DefaultMaxLength),
        correctResponse |-> IF item.answer \in DOMAIN option_ids
                            THEN <<option_ids[item.answer]>>
                            ELSE <<>>,
        text |-> item.text,
        simpleChoices |-> [k \in DOMAIN sorted |->
                             [identifier |-> option_ids[sorted[k]],
                              text |-> DictGet(item.options, sorted[k])]]]

\* QTIGenerator.generate_manifest; hex is the uuid4 of the manifest identifier
ManifestXml(res, hex) ==
    [kind |-> "manifest",
     identifier |-> <<"MANIFEST-", hex>>,
     resources |-> [i \in DOMAIN res |->
                      [identifier |-> <<"RES-">> \o res[i][1],
                       type |-> "imsqti_item_xmlv2p1",
                       href |-> res[i][2],
                       file |-> res[i][2]]]]

-----------------------------------------------------------------------------
(* PackageBuilder: names and the file system                               *)

Digits == <<"0","1","2","3","4","5","6","7","8","9">>

\* the decimal digits of n
RECURSIVE Decimal(_)
Decimal(n) == IF n < 10 THEN <<Digits[n + 1]>> ELSE Decimal(n \div 10) \o <<Digits[(n % 10) + 1]>>

\* f"{index:03d}": zero-padded to three digits, longer when it needs more
Format03d(n) ==
    LET d == Decimal(n)
    IN IF Len(d) >= 3 THEN d ELSE [i \in 1..(3 - Len(d)) |-> "0"] \o d

\* f"ITEM_{uuid.uuid4().hex}"
ItemId(hex) == <<"ITEM_", hex>>

\* the file name without the index
ItemFilename_noindex(i, item_id) == <<"question_">> \o item_id \o <<".xml">>

\* f"question_{index:03d}_{item_id}.xml"
ItemFilename(i, item_id) == <<"question_">> \o Format03d(i) \o <<"_">> \o item_id \o <<".xml">>

ManifestFilename == <<"imsmanifest.xml">>

\* str.endswith
EndsWith(s, suffix) ==
    /\ Len(s) >= Len(suffix)
    /\ SubSeq(s, Len(s) - Len(suffix) + 1, Len(s)) = suffix

\* str.startswith
StartsWith(s, prefix) ==
    /\ Len(s) >= Len(prefix)
    /\ SubSeq(s, 1, Len(prefix)) = prefix

ZipSuffix == <<".","z","i","p">>

\* the archive name appended to every name
ZipName_always(name) == name \o ZipSuffix

\* the archive name: ".zip" is appended unless the name ends with it
ZipName(name) == IF EndsWith(name, ZipSuffix) THEN name ELSE name \o ZipSuffix

\* "temp_qti_build" and the separator: output_dir / output_filename is a path
\* inside self.temp_dir when output_filename starts with it
StagingPrefix == <<"t","e","m","p","_","q","t","i","_","b","u","i","l","d","/">>

InStaging(path) == StartsWith(path, StagingPrefix) /\ Len(path) > Len(StagingPrefix)

\* file_path.relative_to(self.temp_dir)
RelativeToStaging(path) == SubSeq(path, Len(StagingPrefix) + 1, Len(path))

\* open(path, "w") and write: the file is created or replaced
WriteFile(files, name, content) == {f \in files : f[1] # name} \cup {<<name, content>>}

FileNames(files) == {f[1] : f \in files}

\* the files temp_dir.rglob("*") yields that are not yet in the archive
ToArchive(dir, archive) == {f \in dir.files : f[1] \notin FileNames(archive.entries)}

-----------------------------------------------------------------------------
(* Input files                                                             *)

MaxLines == 4
MaxBlocks == 2

\* lines a free-form file is made of: question text (one padded, with an
\* inner space), options with ")" and ".", a repeated option letter, ANSWER
\* lines in both cases, an empty and a whitespace-only line
FreeLines ==
    { <<"Q","1">>,
      <<" ","Q"," ","2","\t">>,
      <<"A",")"," ","x">>,
      <<"B","."," "," ","y">>,
      <<"A",")"," ","z">>,
      <<"A","N","S","W","E","R",":"," ","A">>,
      <<"a","n","s","w","e","r",":","b">>,
      <<>>,
      <<" ","\t">> }

FreeFiles == UNION { [1..n -> FreeLines] : n \in 0..MaxLines }

\* a block, by its parts: text lines (left padding, body, right padding),
\* option lines (letter, delimiter, gap, text) and the ANSWER line (keyword,
\* gap, letter)
TextQ1 == [lpad |-> <<>>, body |-> <<"Q","1">>, rpad |-> <<>>]
TextQ2 == [lpad |-> <<" ">>, body |-> <<"Q"," ","2">>, rpad |-> <<"\t">>]
OptA == [letter |-> "A", delim |-> ")", gap |-> <<" ">>, text |-> <<"x">>]
OptB == [letter |-> "B", delim |-> ".", gap |-> <<" "," ">>, text |-> <<"y">>]
OptA2 == [letter |-> "A", delim |-> ")", gap |-> <<" ">>, text |-> <<"z">>]
AnsA == [keyword |-> <<"A","N","S","W","E","R",":">>, gap |-> <<" ">>, letter |-> "A"]
Ansb == [keyword |-> <<"a","n","s","w","e","r",":">>, gap |-> <<>>, letter |-> "b"]
AnsC == [keyword |-> <<"A","N","S","W","E","R",":">>, gap |-> <<" ">>, letter |-> "C"]

BlockTexts == { <<TextQ1>>, <<TextQ2, TextQ1>> }
BlockOptions == { <<OptA>>, <<OptA, OptB>>, <<OptB, OptA>>, <<OptA, OptA2>> }
BlockAnswers == { AnsA, Ansb, AnsC }

\* str.upper() of the letter an ANSWER line is written with, by table
LetterNamed(c) == CASE c = "a" -> "A" [] c = "b" -> "B" [] OTHER -> c

\* blocks of text lines, option lines and one ANSWER line
Blocks ==
    { [text |-> x[1], opts |-> x[2], ans |-> x[3]] :
        x \in BlockTexts \X BlockOptions \X BlockAnswers }

\* the ANSWER line names one of the block's option letters
WellFormed(b) == \E i \in DOMAIN b.opts : b.opts[i].letter = LetterNamed(b.ans.letter)

BlockLines(b) ==
    [i \in DOMAIN b.text |-> b.text[i].lpad \o b.text[i].body \o b.text[i].rpad]
    \o [i \in DOMAIN b.opts |->
          <<b.opts[i].letter, b.opts[i].delim>> \o b.opts[i].gap \o b.opts[i].text]
    \o << b.ans.keyword \o b.ans.gap \o <<b.ans.letter>> >>

\* the file written from blocks, one blank line between two blocks
RECURSIVE BlocksFile(_)
BlocksFile(bs) ==
    IF bs = <<>> THEN <<>>
    ELSE IF Len(bs) = 1 THEN BlockLines(bs[1])
    ELSE BlockLines(bs[1]) \o << <<>> >> \o BlocksFile(Tail(bs))

BlockSeqs == UNION { [1..n -> Blocks] : n \in 0..MaxBlocks }

-----------------------------------------------------------------------------
(* AikenParser.parse_file as a state machine                               *)

ParserIdle ==
    /\ source_blocks = <<>>
    /\ file_lines = <<>>
    /\ lines = <<>>
    /\ line_number = 0
    /\ questions = <<>>
    /\ current_question_text = <<>>
    /\ current_options = <<>>
    /\ pc = "idle"

QuestionIdle ==
    /\ instance = NoQuestion
    /\ instance_raised = FALSE

NoDirectory == [exists |-> FALSE, files |-> {}]

NoXml == [kind |-> "none"]

\* main has not been entered
NoArgs == [create_sample |-> <<>>, input_file |-> <<>>, output |-> <<>>,
           validate_only |-> FALSE]

NoExit == -1

MainIdle ==
    /\ args = NoArgs
    /\ input_kind = "missing"
    /\ sample_written = FALSE
    /\ caught = ""
    /\ exit_code = NoExit
    /\ mpc = "idle"

NoTitle == <<"none">>

CallsIdle ==
    /\ title_text = <<>>
    /\ title_max_length = 0
    /\ title = NoTitle
    /\ name_index = 0
    /\ name_result = <<>>

BuilderIdle ==
    /\ builds = 0
    /\ build_questions = <<>>
    /\ output_filename = <<>>
    /\ temp_dir = NoDirectory
    /\ output_dir = {}
    /\ resources = <<>>
    /\ index = 0
    /\ question = NoQuestion
    /\ xml_content = NoXml
    /\ output_path = <<>>
    /\ error = ""
    /\ bpc = "idle"

Init ==
    /\ \/ /\ source_blocks \in BlockSeqs
          /\ file_lines = BlocksFile(source_blocks)
       \/ /\ source_blocks = <<>>
          /\ file_lines \in FreeFiles
    /\ lines = <<>>
    /\ line_number = 0
    /\ questions = <<>>
    /\ current_question_text = <<>>
    /\ current_options = <<>>
    /\ pc = "start"
    /\ QuestionIdle
    /\ BuilderIdle
    /\ MainIdle
    /\ CallsIdle

\* lines 83-98: read and strip the lines, set up the scanner
ReadFile ==
    /\ pc = "start"
    /\ lines' = StripLines(file_lines)
    /\ line_number' = 0
    /\ questions' = ScanStart.questions
    /\ current_question_text' = ScanStart.text
    /\ current_options' = ScanStart.options
    /\ pc' = "loop"
    /\ UNCHANGED <<source_blocks, file_lines>>
    /\ UNCHANGED <<questionVars, builderVars, mainVars, callVars>>

ScanState == [questions |-> questions, text |-> current_question_text,
              options |-> current_options]

\* the branch the next iteration of "for line in lines" takes
NextKind ==
    IF pc = "loop" /\ line_number < Len(lines)
    THEN LineKind(current_question_text, current_options, lines[line_number + 1])
    ELSE "none"

\* one iteration of "for line in lines"
Iteration ==
    /\ pc = "loop"
    /\ line_number < Len(lines)
    /\ LET st == ScanLine(ScanState, lines[line_number + 1])
       IN /\ questions' = st.questions
          /\ current_question_text' = st.text
          /\ current_options' = st.options
    /\ line_number' = line_number + 1
    /\ UNCHANGED <<source_blocks, file_lines, lines, pc>>
    /\ UNCHANGED <<questionVars, builderVars, mainVars, callVars>>

\* lines 103-104
SkipBlank ==
    /\ NextKind = "blank"
    /\ Iteration

\* lines 111-115
AnswerWithoutQuestion ==
    /\ NextKind = "answer_without_question"
    /\ Iteration

\* lines 117-121
AnswerWithoutOptions ==
    /\ NextKind = "answer_without_options"
    /\ Iteration

\* lines 123-130, 134-137: the Question is constructed and appended
AnswerAccepted ==
    /\ NextKind = "answer_accepted"
    /\ Iteration

\* lines 123-128, 131-137: Question raises ValueError, the block is dropped
AnswerRejected ==
    /\ NextKind = "answer_rejected"
    /\ Iteration

\* lines 140-145
OptionLine ==
    /\ NextKind = "option"
    /\ Iteration

\* lines 148-151
TextLine ==
    /\ NextKind = "text"
    /\ Iteration

\* lines 153-158: the loop has ended; report a pending question, return
ReturnQuestions ==
    /\ pc = "loop"
    /\ line_number = Len(lines)
    /\ questions' = FinalQuestions(questions, current_question_text, current_options)
    /\ pc' = "done"
    /\ UNCHANGED <<source_blocks, file_lines, lines, line_number,
                   current_question_text, current_options>>
    /\ UNCHANGED <<questionVars, builderVars, mainVars, callVars>>

Next ==
    \/ ReadFile
    \/ SkipBlank
    \/ AnswerWithoutQuestion
    \/ AnswerWithoutOptions
    \/ AnswerAccepted
    \/ AnswerRejected
    \/ OptionLine
    \/ TextLine
    \/ ReturnQuestions

Spec == Init /\ [][Next]_vars

\* parse_file as a function of the file's lines
RECURSIVE ScanLines(_, _)
ScanLines(st, ls) == IF ls = <<>> THEN st ELSE ScanLines(ScanLine(st, Head(ls)), Tail(ls))

ParseFile(raw) ==
    LET st == ScanLines(ScanStart, StripLines(raw))
    IN FinalQuestions(st.questions, st.text, st.options)

-----------------------------------------------------------------------------
(* Properties of parse_file                                                *)

\* texts joined by exactly one space
RECURSIVE JoinWithSpace(_)
JoinWithSpace(ts) ==
    IF ts = <<>> THEN <<>>
    ELSE IF Len(ts) = 1 THEN ts[1]
    ELSE ts[1] \o <<" ">> \o JoinWithSpace(Tail(ts))

\* the record a well-formed block describes
ExpectedText(b) == JoinWithSpace([i \in DOMAIN b.text |-> b.text[i].body])
ExpectedLetters(b) == {b.opts[i].letter : i \in DOMAIN b.opts}
ExpectedOptionText(b, l) ==
    b.opts[CHOOSE i \in DOMAIN b.opts :
             /\ b.opts[i].letter = l
             /\ \A j \in DOMAIN b.opts : b.opts[j].letter = l => j <= i].text
ExpectedAnswer(b) == LetterNamed(b.ans.letter)

BuiltFrom(q, b) ==
    /\ q.text = ExpectedText(b)
    /\ DictKeySet(q.options) = ExpectedLetters(b)
    /\ Len(q.options) = Cardinality(ExpectedLetters(b))
    /\ \A l \in ExpectedLetters(b) : DictGet(q.options, l) = ExpectedOptionText(b, l)
    /\ q.answer = ExpectedAnswer(b)

\* C1: a file of K well-formed blocks separated by blank lines parses to
\* exactly K records, the i-th built from the i-th block.
C1_BlocksInOrder ==
    (/\ pc = "done"
     /\ file_lines = BlocksFile(source_blocks)
     /\ \A i \in DOMAIN source_blocks : WellFormed(source_blocks[i])) =>
        /\ Len(questions) = Len(source_blocks)
        /\ \A i \in DOMAIN source_blocks : BuiltFrom(questions[i], source_blocks[i])

C1_Witness ==
    /\ pc = "done"
    /\ Len(source_blocks) = 2
    /\ file_lines = BlocksFile(source_blocks)
    /\ \A i \in DOMAIN source_blocks : WellFormed(source_blocks[i])
    /\ Len(source_blocks[1].text) = 2
    /\ Len(questions) = 2
    /\ questions[1] # questions[2]

DistinctLetters(b) ==
    \A i, j \in DOMAIN b.opts : b.opts[i].letter = b.opts[j].letter => i = j

\* C2: a single block with N option lines of distinct letters and an ANSWER
\* line (keyword and letter in any case) naming one of them parses to exactly
\* one Question, whose answer is the upper-cased letter and whose options
\* have N entries.
C2_SingleBlock ==
    (/\ pc = "done"
     /\ Len(source_blocks) = 1
     /\ file_lines = BlocksFile(source_blocks)
     /\ WellFormed(source_blocks[1])
     /\ DistinctLetters(source_blocks[1])) =>
        /\ Len(questions) = 1
        /\ questions[1].answer = LetterNamed(source_blocks[1].ans.letter)
        /\ Len(questions[1].options) = Len(source_blocks[1].opts)
        /\ Cardinality(DictKeySet(questions[1].options)) = Len(source_blocks[1].opts)

C2_Witness ==
    /\ pc = "done"
    /\ Len(source_blocks) = 1
    /\ DistinctLetters(source_blocks[1])
    /\ source_blocks[1].ans = Ansb
    /\ Len(source_blocks[1].opts) = 2
    /\ Len(questions) = 1
    /\ questions[1].answer = "B"

\* the scanner state before line i of ls
StateBefore(ls, i) == ScanLines(ScanStart, SubSeq(ls, 1, i - 1))

\* the branch line i of ls takes
KindAt(ls, i) ==
    LET st == StateBefore(ls, i) IN LineKind(st.text, st.options, ls[i])

\* line i closes a block: the accumulated text and options are reset
ClosesBlock(ls, i) == KindAt(ls, i) \in {"answer_accepted", "answer_rejected"}

Max(S) == CHOOSE x \in S : \A y \in S : y <= x

\* the first line of the block that is open at line i: the line after the
\* last reset
BlockStart(ls, i) == 1 + Max({0} \cup {j \in 1..(i - 1) : ClosesBlock(ls, j)})

\* the file without the block that ends at line i
WithoutBlock(raw, i) ==
    SubSeq(raw, 1, BlockStart(StripLines(raw), i) - 1) \o SubSeq(raw, i + 1, Len(raw))

ClosedPart(raw) ==
    SubSeq(raw, 1, BlockStart(StripLines(raw), Len(raw) + 1) - 1)

AcceptedLines(ls) == {i \in DOMAIN ls : KindAt(ls, i) = "answer_accepted"}

\* C4: when the file ends with accumulated text or options not closed by an
\* ANSWER line, that partial block contributes no record and the records of
\* the closed blocks before it are all returned.
C4_TrailingPartialDropped ==
    (pc = "done" /\ (current_question_text # <<>> \/ current_options # <<>>)) =>
        /\ questions = ParseFile(ClosedPart(file_lines))
        /\ Len(questions) = Cardinality(AcceptedLines(lines))

C4_Witness ==
    /\ pc = "done"
    /\ current_question_text # <<>>
    /\ Len(questions) >= 1

\* a non-blank line that is neither an option line nor an ANSWER line
IsQuestionTextLine(line) == line # <<>> /\ ~AnswerMatch(line) /\ ~OptionMatch(line)

\* the line whose ANSWER produced the k-th record
AcceptedIndex(ls, k) ==
    CHOOSE i \in AcceptedLines(ls) : Cardinality({j \in AcceptedLines(ls) : j <= i}) = k

\* the stripped question-text lines of the block closed at line i
BlockTextLines(raw, i) ==
    SelectSeq(SubSeq(StripLines(raw), BlockStart(StripLines(raw), i), i), IsQuestionTextLine)

\* C6: the text of each record is the stripped content of the non-blank lines
\* of its block that are neither option nor ANSWER lines, in source order,
\* joined by exactly one space, without leading or trailing whitespace.
C6_TextJoined ==
    pc = "done" =>
        /\ Len(questions) = Cardinality(AcceptedLines(lines))
        /\ \A k \in DOMAIN questions :
              LET t == questions[k].text
              IN /\ t = JoinWithSpace(BlockTextLines(file_lines, AcceptedIndex(lines, k)))
                 /\ t # <<>>
                 /\ ~IsSpace(t[1])
                 /\ ~IsSpace(t[Len(t)])

C6_Witness ==
    /\ pc = "done"
    /\ \E k \in DOMAIN questions :
          LET ts == BlockTextLines(file_lines, AcceptedIndex(lines, k))
          IN /\ Len(ts) >= 2
             /\ \E j \in DOMAIN file_lines : file_lines[j] # lines[j] /\ lines[j] \in {ts[n] : n \in DOMAIN ts}

-----------------------------------------------------------------------------
(* Question: construction and the operations a holder of an instance has   *)

QuestionTexts == { <<>>, <<" ">>, <<"Q","1">>, <<" ","Q">> }
QuestionOptions == { <<>>, << <<"A", <<"x">>>> >>, << <<"A", <<"x">>>>, <<"B", <<"y">>>> >> }
QuestionAnswers == { "A", "B", "C" }

InitQuestion ==
    /\ ParserIdle
    /\ QuestionIdle
    /\ BuilderIdle
    /\ MainIdle
    /\ CallsIdle

\* Question(text=..., options=..., answer=...): __init__ assigns the fields,
\* __post_init__ validates them
Construct(text, options, answer) ==
    /\ instance = NoQuestion
    /\ IF QuestionValid(text, options, answer)
       THEN instance' = Question(text, options, answer) /\ instance_raised' = FALSE
       ELSE instance' = NoQuestion /\ instance_raised' = TRUE
    /\ UNCHANGED <<parserVars, builderVars, mainVars, callVars>>

ConstructQuestion ==
    \E text \in QuestionTexts, options \in QuestionOptions, answer \in QuestionAnswers :
        Construct(text, options, answer)

\* instance.text = value: the dataclass is not frozen, nothing is validated
AssignText ==
    /\ instance # NoQuestion
    /\ \E text \in QuestionTexts : instance' = [instance EXCEPT !.text = text]
    /\ UNCHANGED <<instance_raised, parserVars, builderVars, mainVars, callVars>>

\* instance.options[letter] = text: the dict is mutable
SetOption ==
    /\ instance # NoQuestion
    /\ \E letter \in QuestionAnswers, text \in { <<"x">>, <<"y">> } :
          instance' = [instance EXCEPT !.options = DictSet(@, letter, text)]
    /\ UNCHANGED <<instance_raised, parserVars, builderVars, mainVars, callVars>>

\* del instance.options[letter]
DelOption ==
    /\ instance # NoQuestion
    /\ \E letter \in DictKeySet(instance.options) :
          instance' = [instance EXCEPT !.options = DictDel(@, letter)]
    /\ UNCHANGED <<instance_raised, parserVars, builderVars, mainVars, callVars>>

\* instance.answer = value
AssignAnswer ==
    /\ instance # NoQuestion
    /\ \E answer \in QuestionAnswers : instance' = [instance EXCEPT !.answer = answer]
    /\ UNCHANGED <<instance_raised, parserVars, builderVars, mainVars, callVars>>

NextQuestion ==
    \/ ConstructQuestion
    \/ AssignText
    \/ SetOption
    \/ DelOption
    \/ AssignAnswer

SpecQuestion == InitQuestion /\ [][NextQuestion]_vars

\* C5: every Question instance has, at construction and at every later point,
\* non-empty text, non-empty options and an answer that is a key of options.
C5_QuestionInvariant ==
    instance # NoQuestion =>
        /\ instance.text # <<>>
        /\ instance.options # <<>>
        /\ DictHas(instance.options, instance.answer)

-----------------------------------------------------------------------------
(* PackageBuilder.build_package as a state machine                         *)

MaxQuestions == 2

\* the values uuid.uuid4().hex takes here (two calls may return the same)
UuidHex == { "0a", "0b" }

\* Question instances as parse_file produces them; the last has a form feed
\* inside its text
BuildQuestions ==
    { x \in { Question(<<"Q","1">>, << <<"A", <<"x">>>>, <<"B", <<"y">>>> >>, "A"),
              Question(<<"Q"," ","2">>, << <<"B", <<"y">>>>, <<"A", <<"x">>>> >>, "B"),
              Question(<<"Q","\f","1">>, << <<"A", <<"x">>>> >>, "A") } :
        QuestionValid(x.text, x.options, x.answer) }

QuestionLists == UNION { [1..n -> BuildQuestions] : n \in 0..MaxQuestions }

StaleFile == << <<"stale.xml">>, [kind |-> "stale"] >>

\* an archive a previous build left at the destination
OldArchive == [kind |-> "archive", entries |-> {StaleFile}, complete |-> TRUE]

\* output names without and with the extension
PlainNames == { <<"o">>, <<"o",".","z","i","p">> }

InitBuild ==
    /\ ParserIdle
    /\ QuestionIdle
    /\ MainIdle
    /\ CallsIdle
    /\ builds = 1
    /\ build_questions \in QuestionLists
    /\ output_filename \in PlainNames
    /\ temp_dir \in { NoDirectory, [exists |-> TRUE, files |-> {StaleFile}] }
    /\ output_dir \in { {}, { <<ZipName(<<"o">>), OldArchive>> } }
    /\ resources = <<>>
    /\ index = 0
    /\ question = NoQuestion
    /\ xml_content = NoXml
    /\ output_path = <<>>
    /\ error = ""
    /\ bpc = "call"

\* the staging directory mkdir(exist_ok=True) leaves when the rmtree before
\* it is skipped
FreshDirectory_keep(dir) == [exists |-> TRUE, files |-> dir.files]

\* the staging directory after lines 400-402: removed if it was there, made anew
FreshDirectory(dir) == [exists |-> TRUE, files |-> {}]

\* _setup_temp_directory (line 360, before the try): rmtree of an existing
\* directory, then mkdir; then lines 363-364
SetupTempDirectory ==
    /\ bpc = "call"
    /\ temp_dir' = FreshDirectory(temp_dir)
    /\ resources' = <<>>
    /\ index' = 0
    /\ bpc' = "items"
    /\ UNCHANGED <<builds, build_questions, output_filename, output_dir, question, xml_content,
                   output_path, error>>
    /\ UNCHANGED <<parserVars, questionVars, mainVars, callVars>>

\* shutil.rmtree (line 401) raises: the directory is left, with some or all
\* of its files; the exception leaves build_package, no finally is in force
SetupRmtreeFails ==
    /\ bpc = "call"
    /\ temp_dir.exists
    /\ \E left \in SUBSET temp_dir.files : temp_dir' = [exists |-> TRUE, files |-> left]
    /\ error' = "rmtree"
    /\ bpc' = "raised"
    /\ UNCHANGED <<builds, build_questions, output_filename, output_dir, resources, index,
                   question, xml_content, output_path>>
    /\ UNCHANGED <<parserVars, questionVars, mainVars, callVars>>

\* mkdir (line 402) raises after the old directory is gone
SetupMkdirFails ==
    /\ bpc = "call"
    /\ temp_dir' = NoDirectory
    /\ error' = "mkdir"
    /\ bpc' = "raised"
    /\ UNCHANGED <<builds, build_questions, output_filename, output_dir, resources, index,
                   question, xml_content, output_path>>
    /\ UNCHANGED <<parserVars, questionVars, mainVars, callVars>>

\* lines 367-380: one iteration of the loop over the questions
GenerateItem ==
    /\ bpc = "items"
    /\ index < Len(build_questions)
    /\ question' = build_questions[index + 1]
    /\ ~ItemXmlRaises(question')
    /\ \E hex \in UuidHex, hex8 \in [DictKeySet(question'.options) -> UuidHex] :
          LET item_id == ItemId(hex)
              filename == ItemFilename(index + 1, item_id)
              xml == ItemXml(question', item_id, hex8)
          IN /\ xml_content' = xml
             /\ temp_dir' = [temp_dir EXCEPT !.files = WriteFile(@, filename, xml)]
             /\ resources' = Append(resources, <<item_id, filename>>)
    /\ index' = index + 1
    /\ UNCHANGED <<builds, build_questions, output_filename, output_dir, output_path, error, bpc>>
    /\ UNCHANGED <<parserVars, questionVars, mainVars, callVars>>

\* generate_item_xml raises (line 372)
GenerateItemRaises ==
    /\ bpc = "items"
    /\ index < Len(build_questions)
    /\ question' = build_questions[index + 1]
    /\ ItemXmlRaises(question')
    /\ error' = "render"
    /\ bpc' = "cleanup"
    /\ UNCHANGED <<builds, build_questions, output_filename, temp_dir, output_dir, resources,
                   index, xml_content, output_path>>
    /\ UNCHANGED <<parserVars, questionVars, mainVars, callVars>>

\* open or write of the item file raises (lines 376-377): the file is absent
\* or holds part of the XML
WriteItemFails ==
    /\ bpc = "items"
    /\ index < Len(build_questions)
    /\ question' = build_questions[index + 1]
    /\ ~ItemXmlRaises(question')
    /\ \E hex \in UuidHex, hex8 \in [DictKeySet(question'.options) -> UuidHex] :
          LET item_id == ItemId(hex)
              filename == ItemFilename(index + 1, item_id)
          IN /\ xml_content' = ItemXml(question', item_id, hex8)
             /\ \/ UNCHANGED temp_dir
                \/ temp_dir' = [temp_dir EXCEPT
                                  !.files = WriteFile(@, filename, [kind |-> "partial"])]
    /\ error' = "write_item"
    /\ bpc' = "cleanup"
    /\ UNCHANGED <<builds, build_questions, output_filename, output_dir, resources, index,
                   output_path>>
    /\ UNCHANGED <<parserVars, questionVars, mainVars, callVars>>

\* lines 383-386
WriteManifest ==
    /\ bpc = "items"
    /\ index = Len(build_questions)
    /\ \E hex \in UuidHex :
          temp_dir' = [temp_dir EXCEPT
                         !.files = WriteFile(@, ManifestFilename, ManifestXml(resources, hex))]
    /\ bpc' = "zip"
    /\ UNCHANGED <<builds, build_questions, output_filename, output_dir, resources, index,
                   question, xml_content, output_path, error>>
    /\ UNCHANGED <<parserVars, questionVars, mainVars, callVars>>

\* open or write of imsmanifest.xml raises (lines 385-386)
WriteManifestFails ==
    /\ bpc = "items"
    /\ index = Len(build_questions)
    /\ error' = "write_manifest"
    /\ bpc' = "cleanup"
    /\ UNCHANGED <<builds, build_questions, output_filename, temp_dir, output_dir, resources,
                   index, question, xml_content, output_path>>
    /\ UNCHANGED <<parserVars, questionVars, mainVars, callVars>>

\* the file a path names exists: in the staging directory or in output_dir
ExistsAt(path) ==
    IF InStaging(path)
    THEN temp_dir.exists /\ RelativeToStaging(path) \in FileNames(temp_dir.files)
    ELSE path \in FileNames(output_dir)

\* the archive at the path _create_zip_package writes
ArchiveAt(path) ==
    IF InStaging(path)
    THEN (CHOOSE f \in temp_dir.files : f[1] = RelativeToStaging(path))[2]
    ELSE (CHOOSE f \in output_dir : f[1] = path)[2]

\* the archive file at path is created or replaced
StoreArchive(path, archive) ==
    IF InStaging(path)
    THEN /\ temp_dir' = [temp_dir EXCEPT
                           !.files = WriteFile(@, RelativeToStaging(path), archive)]
         /\ UNCHANGED output_dir
    ELSE /\ output_dir' = WriteFile(output_dir, path, archive)
         /\ UNCHANGED temp_dir

\* lines 413-418: zipfile.ZipFile(output_path, "w") creates or truncates the file
OpenZip ==
    /\ bpc = "zip"
    /\ output_path' = ZipName(output_filename)
    /\ StoreArchive(ZipName(output_filename),
                    [kind |-> "archive", entries |-> {}, complete |-> FALSE])
    /\ bpc' = "zip_write"
    /\ UNCHANGED <<builds, build_questions, output_filename, resources, index,
                   question, xml_content, error>>
    /\ UNCHANGED <<parserVars, questionVars, mainVars, callVars>>

\* zipfile.ZipFile(...) raises (line 418): nothing is written
OpenZipFails ==
    /\ bpc = "zip"
    /\ error' = "open_zip"
    /\ bpc' = "cleanup"
    /\ UNCHANGED <<builds, build_questions, output_filename, temp_dir, output_dir, resources,
                   index, question, xml_content, output_path>>
    /\ UNCHANGED <<parserVars, questionVars, mainVars, callVars>>

\* lines 419-423: one file of the staging directory is added, in the order
\* rglob yields them
ZipWriteFile ==
    /\ bpc = "zip_write"
    /\ \E f \in ToArchive(temp_dir, ArchiveAt(output_path)) :
          StoreArchive(output_path, [ArchiveAt(output_path) EXCEPT !.entries = @ \cup {f}])
    /\ UNCHANGED <<builds, build_questions, output_filename, resources, index,
                   question, xml_content, output_path, error, bpc>>
    /\ UNCHANGED <<parserVars, questionVars, mainVars, callVars>>

\* zipf.write raises (line 422): the with statement closes the archive with
\* the entries written so far and the exception goes on
ZipWriteFails ==
    /\ bpc = "zip_write"
    /\ ToArchive(temp_dir, ArchiveAt(output_path)) # {}
    /\ error' = "write_zip"
    /\ bpc' = "cleanup"
    /\ UNCHANGED <<builds, build_questions, output_filename, temp_dir, output_dir, resources,
                   index, question, xml_content, output_path>>
    /\ UNCHANGED <<parserVars, questionVars, mainVars, callVars>>

\* the with statement ends (line 418), line 425 returns output_path
CloseZip ==
    /\ bpc = "zip_write"
    /\ ToArchive(temp_dir, ArchiveAt(output_path)) = {}
    /\ StoreArchive(output_path, [ArchiveAt(output_path) EXCEPT !.complete = TRUE])
    /\ bpc' = "cleanup"
    /\ UNCHANGED <<builds, build_questions, output_filename, resources, index,
                   question, xml_content, output_path, error>>
    /\ UNCHANGED <<parserVars, questionVars, mainVars, callVars>>

\* finally: _cleanup_temp_directory (lines 394-396, 405-409); then the return
\* of line 392 or the exception in flight
CleanupTempDirectory ==
    /\ bpc = "cleanup"
    /\ temp_dir' = NoDirectory
    /\ bpc' = IF error = "" THEN "returned" ELSE "raised"
    /\ UNCHANGED <<builds, build_questions, output_filename, output_dir, resources, index,
                   question, xml_content, output_path, error>>
    /\ UNCHANGED <<parserVars, questionVars, mainVars, callVars>>

\* shutil.rmtree raises inside the finally (line 408): the directory is
\* left and this exception is the one that leaves build_package
CleanupRmtreeFails ==
    /\ bpc = "cleanup"
    /\ temp_dir.exists
    /\ \E left \in SUBSET temp_dir.files : temp_dir' = [exists |-> TRUE, files |-> left]
    /\ error' = "cleanup_rmtree"
    /\ bpc' = "raised"
    /\ UNCHANGED <<builds, build_questions, output_filename, output_dir, resources, index,
                   question, xml_content, output_path>>
    /\ UNCHANGED <<parserVars, questionVars, mainVars, callVars>>

NextBuild ==
    \/ SetupTempDirectory
    \/ SetupRmtreeFails
    \/ SetupMkdirFails
    \/ GenerateItem
    \/ GenerateItemRaises
    \/ WriteItemFails
    \/ WriteManifest
    \/ WriteManifestFails
    \/ OpenZip
    \/ OpenZipFails
    \/ ZipWriteFile
    \/ ZipWriteFails
    \/ CloseZip
    \/ CleanupTempDirectory
    \/ CleanupRmtreeFails

SpecBuild == InitBuild /\ [][NextBuild]_vars

-----------------------------------------------------------------------------
(* Properties of generate_item_xml and build_package                       *)

\* the question xml_content was generated from: the loop's question, or the
\* one before it when generate_item_xml raised and left xml_content as it was
XmlQuestion == IF ItemXmlRaises(question) THEN build_questions[index] ELSE question

\* the place of a letter among the option letters in ascending order
PlaceOf(letter, letters) ==
    1 + Cardinality({l \in letters : LetterRank(l) < LetterRank(letter)})

\* an item XML that was emitted has exactly one correctResponse value, the
\* identifier of the simpleChoice of the answer's option and of no other
CorrectResponseLinked ==
    xml_content # NoXml =>
        LET k == PlaceOf(XmlQuestion.answer, DictKeySet(XmlQuestion.options))
            choices == xml_content.simpleChoices
        IN /\ Len(xml_content.correctResponse) = 1
           /\ k \in DOMAIN choices
           /\ choices[k].text = DictGet(XmlQuestion.options, XmlQuestion.answer)
           /\ \A j \in DOMAIN choices :
                 (choices[j].identifier = xml_content.correctResponse[1]) <=> (j = k)

\* C7: for every valid Question, generate_item_xml emits an item whose
\* correctResponse holds exactly one value, the identifier of the
\* simpleChoice of the answer's option and of no other simpleChoice.
C7_Original ==
    /\ error # "render"
    /\ xml_content # NoXml =>
          LET k == PlaceOf(XmlQuestion.answer, DictKeySet(XmlQuestion.options))
          IN /\ Len(xml_content.correctResponse) = 1
             /\ \A j \in DOMAIN xml_content.simpleChoices :
                   (xml_content.simpleChoices[j].identifier = xml_content.correctResponse[1])
                      <=> (j = k)

QuestionEntries(archive) == {f \in archive.entries : f[2].kind = "assessmentItem"}

ManifestEntries(archive) == {f \in archive.entries : f[1] = ManifestFilename}

\* C8: a successful build of M questions leaves an archive with exactly M
\* question files and imsmanifest.xml, whose manifest has exactly M resource
\* entries, their href values being the names of the M question files.
C8_ArchiveContents ==
    bpc = "returned" =>
        LET archive == ArchiveAt(output_path)
            M == Len(build_questions)
        IN /\ archive.complete
           /\ Cardinality(QuestionEntries(archive)) = M
           /\ Cardinality(ManifestEntries(archive)) = 1
           /\ archive.entries = QuestionEntries(archive) \cup ManifestEntries(archive)
           /\ \A m \in ManifestEntries(archive) :
                 /\ Len(m[2].resources) = M
                 /\ {m[2].resources[i].href : i \in DOMAIN m[2].resources}
                       = FileNames(QuestionEntries(archive))
                 /\ \A i, j \in DOMAIN m[2].resources :
                       m[2].resources[i].href = m[2].resources[j].href => i = j

\* two questions whose item identifiers drew the same uuid
C8_Witness ==
    /\ bpc = "returned"
    /\ Len(build_questions) = 2
    /\ resources[1][1] = resources[2][1]
    /\ Cardinality(ArchiveAt(output_path).entries) = 3

\* C9: on every exit path of build_package, a normal return or an exception
\* raised at any step, the staging directory no longer exists afterwards.
C9_Original ==
    bpc \in {"returned", "raised"} => ~temp_dir.exists

\* C10: when a file system error while staging or while writing the zip
\* aborts build_package, no incomplete archive is left at the destination.
C10_Original ==
    (bpc = "raised" /\ error \in {"write_item", "write_manifest", "open_zip", "write_zip"}) =>
        \A f \in output_dir : f[1] = ZipName(output_filename) => f[2].complete

-----------------------------------------------------------------------------
(* main: validate_input_file, parse_file, build_package and the exit code  *)

\* blocks of the input files main is run on: accepted, rejected (the answer
\* names no option), and accepted with a form feed inside the text
TextFF == [lpad |-> <<>>, body |-> <<"Q","\f","1">>, rpad |-> <<>>]

BlockAccepted == [text |-> <<TextQ1>>, opts |-> <<OptA, OptB>>, ans |-> AnsA]
BlockRejected == [text |-> <<TextQ2>>, opts |-> <<OptA>>, ans |-> AnsC]
BlockFormFeed == [text |-> <<TextFF>>, opts |-> <<OptA>>, ans |-> AnsA]

\* the input files, by their blocks: none (a zero-length file), one block of
\* each kind, and two blocks
MainBlockSeqs ==
    { <<>>,
      <<BlockAccepted>>, <<BlockRejected>>, <<BlockFormFeed>>,
      <<BlockAccepted, BlockAccepted>>, <<BlockRejected, BlockAccepted>>,
      <<BlockAccepted, BlockFormFeed>>, <<BlockRejected, BlockRejected>> }

\* --output values: a plain name and a name inside the staging directory
MainOutputs == { <<"o">>, StagingPrefix \o <<"o">> }

\* validate_input_file without the size test
InputError_noempty(kind, content) ==
    IF kind = "missing" THEN "FileNotFoundError"
    ELSE IF kind = "directory" THEN "ValueError: not a file"
    ELSE ""

\* validate_input_file: the exception it raises ("": none); a file has size
\* 0 exactly when it has no line
InputError(kind, content) ==
    IF kind = "missing" THEN "FileNotFoundError"
    ELSE IF kind = "directory" THEN "ValueError: not a file"
    ELSE IF content = <<>> THEN "ValueError: empty"
    ELSE ""

InitMain ==
    /\ source_blocks \in MainBlockSeqs
    /\ input_kind \in {"missing", "directory", "unreadable", "file"}
    /\ file_lines = IF input_kind \in {"missing", "directory"} THEN <<>>
                    ELSE BlocksFile(source_blocks)
    /\ input_kind = "unreadable" => file_lines # <<>>
    /\ input_kind # "file" => Len(source_blocks) <= 1
    /\ lines = <<>>
    /\ line_number = 0
    /\ questions = <<>>
    /\ current_question_text = <<>>
    /\ current_options = <<>>
    /\ pc = "idle"
    /\ QuestionIdle
    /\ CallsIdle
    /\ builds = 0
    /\ build_questions = <<>>
    /\ output_filename = <<>>
    /\ temp_dir \in { NoDirectory, [exists |-> TRUE, files |-> {StaleFile}] }
    /\ output_dir \in { {}, { <<ZipName(<<"o">>), OldArchive>> } }
    /\ resources = <<>>
    /\ index = 0
    /\ question = NoQuestion
    /\ xml_content = NoXml
    /\ output_path = <<>>
    /\ error = ""
    /\ bpc = "idle"
    /\ args \in [create_sample : {<<>>, <<"s">>},
                 input_file : {<<>>, <<"i">>},
                 output : MainOutputs,
                 validate_only : BOOLEAN]
    /\ args.input_file = <<>> => (input_kind = "missing" /\ source_blocks = <<>>)
    /\ sample_written = FALSE
    /\ caught = ""
    /\ exit_code = NoExit
    /\ mpc = "start"

\* main returns or exits with code
Exit(code, exception) ==
    /\ exit_code' = code
    /\ caught' = exception
    /\ mpc' = "exited"

\* lines 551-555: --create-sample
CreateSample ==
    /\ mpc = "start"
    /\ args.create_sample # <<>>
    /\ sample_written' = TRUE
    /\ Exit(0, "")
    /\ UNCHANGED <<args, input_kind>>
    /\ UNCHANGED <<parserVars, questionVars, builderVars, callVars>>

\* create_sample_file raises (open or write, lines 466-467); lines 606-616
CreateSampleRaises ==
    /\ mpc = "start"
    /\ args.create_sample # <<>>
    /\ \E exception \in {"FileNotFoundError", "OSError"} : Exit(1, exception)
    /\ UNCHANGED <<args, input_kind, sample_written>>
    /\ UNCHANGED <<parserVars, questionVars, builderVars, callVars>>

\* lines 558-561: parser.error prints the usage and raises SystemExit(2),
\* which no except clause of main catches
MissingInputFile ==
    /\ mpc = "start"
    /\ args.create_sample = <<>>
    /\ args.input_file = <<>>
    /\ Exit(2, "SystemExit")
    /\ UNCHANGED <<args, input_kind, sample_written>>
    /\ UNCHANGED <<parserVars, questionVars, builderVars, callVars>>

\* lines 563-567: validate_input_file returns
ValidateInputFile ==
    /\ mpc = "start"
    /\ args.create_sample = <<>>
    /\ args.input_file # <<>>
    /\ InputError(input_kind, file_lines) = ""
    /\ mpc' = "parse"
    /\ UNCHANGED <<args, input_kind, sample_written, caught, exit_code>>
    /\ UNCHANGED <<parserVars, questionVars, builderVars, callVars>>

\* validate_input_file raises (lines 474-481); lines 606-611
ValidateInputFileRaises ==
    /\ mpc = "start"
    /\ args.create_sample = <<>>
    /\ args.input_file # <<>>
    /\ InputError(input_kind, file_lines) # ""
    /\ Exit(1, InputError(input_kind, file_lines))
    /\ UNCHANGED <<args, input_kind, sample_written>>
    /\ UNCHANGED <<parserVars, questionVars, builderVars, callVars>>

\* lines 571-572: parse_file runs to its return
ParseInput ==
    /\ mpc = "parse"
    /\ input_kind = "file"
    /\ LET final == ScanLines(ScanStart, StripLines(file_lines))
       IN /\ lines' = StripLines(file_lines)
          /\ line_number' = Len(file_lines)
          /\ questions' = FinalQuestions(final.questions, final.text, final.options)
          /\ current_question_text' = final.text
          /\ current_options' = final.options
    /\ pc' = "done"
    /\ mpc' = "parsed"
    /\ UNCHANGED <<source_blocks, file_lines>>
    /\ UNCHANGED <<args, input_kind, sample_written, caught, exit_code>>
    /\ UNCHANGED <<questionVars, builderVars, callVars>>

\* parse_file raises: open fails (line 83); lines 612-616
ParseInputRaises ==
    /\ mpc = "parse"
    /\ input_kind = "unreadable"
    /\ pc' = "raised"
    /\ Exit(1, "OSError")
    /\ UNCHANGED <<source_blocks, file_lines, lines, line_number, questions,
                   current_question_text, current_options>>
    /\ UNCHANGED <<args, input_kind, sample_written>>
    /\ UNCHANGED <<questionVars, builderVars, callVars>>

\* lines 574-576
NoQuestionsFound ==
    /\ mpc = "parsed"
    /\ questions = <<>>
    /\ Exit(1, "")
    /\ UNCHANGED <<args, input_kind, sample_written>>
    /\ UNCHANGED <<parserVars, questionVars, builderVars, callVars>>

\* lines 581-585: --validate-only
ValidateOnly ==
    /\ mpc = "parsed"
    /\ questions # <<>>
    /\ args.validate_only
    /\ Exit(0, "")
    /\ UNCHANGED <<args, input_kind, sample_written>>
    /\ UNCHANGED <<parserVars, questionVars, builderVars, callVars>>

\* lines 588-589: PackageBuilder(Path.cwd()).build_package(questions, args.output)
CallBuildPackage ==
    /\ mpc = "parsed"
    /\ questions # <<>>
    /\ ~args.validate_only
    /\ builds' = builds + 1
    /\ build_questions' = questions
    /\ output_filename' = args.output
    /\ resources' = <<>>
    /\ index' = 0
    /\ question' = NoQuestion
    /\ xml_content' = NoXml
    /\ output_path' = <<>>
    /\ error' = ""
    /\ bpc' = "call"
    /\ mpc' = "build"
    /\ UNCHANGED <<temp_dir, output_dir>>
    /\ UNCHANGED <<args, input_kind, sample_written, caught, exit_code>>
    /\ UNCHANGED <<parserVars, questionVars, callVars>>

\* lines 592-604: the report, with output_path.stat()
ReportResult ==
    /\ mpc = "build"
    /\ bpc = "returned"
    /\ ExistsAt(output_path)
    /\ Exit(0, "")
    /\ UNCHANGED <<args, input_kind, sample_written>>
    /\ UNCHANGED <<parserVars, questionVars, builderVars, callVars>>

\* output_path.stat() raises (line 594): no file is at the returned path
ReportResultRaises ==
    /\ mpc = "build"
    /\ bpc = "returned"
    /\ ~ExistsAt(output_path)
    /\ Exit(1, "FileNotFoundError")
    /\ UNCHANGED <<args, input_kind, sample_written>>
    /\ UNCHANGED <<parserVars, questionVars, builderVars, callVars>>

\* build_package raised; lines 606-616
BuildPackageRaises ==
    /\ mpc = "build"
    /\ bpc = "raised"
    /\ Exit(1, error)
    /\ UNCHANGED <<args, input_kind, sample_written>>
    /\ UNCHANGED <<parserVars, questionVars, builderVars, callVars>>

NextMain ==
    \/ CreateSample
    \/ CreateSampleRaises
    \/ MissingInputFile
    \/ ValidateInputFile
    \/ ValidateInputFileRaises
    \/ ParseInput
    \/ ParseInputRaises
    \/ NoQuestionsFound
    \/ ValidateOnly
    \/ CallBuildPackage
    \/ ReportResult
    \/ ReportResultRaises
    \/ BuildPackageRaises
    \/ NextBuild

SpecMain == InitMain /\ [][NextMain]_vars

\* the requested action: the sample file, the validation or the conversion
RequestedAction ==
    IF args.create_sample # <<>> THEN "sample"
    ELSE IF args.input_file = <<>> THEN "none"
    ELSE IF args.validate_only THEN "validate"
    ELSE "convert"

\* the requested action has succeeded
Succeeded ==
    CASE RequestedAction = "sample" -> sample_written
      [] RequestedAction = "none" -> FALSE
      [] RequestedAction = "validate" -> pc = "done" /\ questions # <<>>
      [] RequestedAction = "convert" ->
            /\ bpc = "returned"
            /\ ExistsAt(output_path)
            /\ ArchiveAt(output_path).complete

\* C11: main ends with exit code 0 exactly when the requested action
\* succeeded, and with exit code 1 on every failure, a missing input-file
\* argument included.
C11_Original ==
    mpc = "exited" => exit_code = (IF Succeeded THEN 0 ELSE 1)

\* the exit code of every run but the one without an input-file argument
ExitCodeButUsage ==
    (mpc = "exited" /\ RequestedAction # "none") =>
        exit_code = (IF Succeeded THEN 0 ELSE 1)

\* an existing zero-length input file is to be validated or converted
EmptyInputRun ==
    /\ RequestedAction \in {"validate", "convert"}
    /\ input_kind = "file"
    /\ file_lines = <<>>

\* C12: for an existing zero-length input file the run fails with the empty
\* input error of validate_input_file, parse_file is never invoked, no
\* staging directory or archive is created, and the exit code is 1.
C12_EmptyInputRejected ==
    /\ [](EmptyInputRun =>
            /\ pc = "idle"
            /\ bpc = "idle"
            /\ mpc = "exited" => (caught = "ValueError: empty" /\ exit_code = 1))
    /\ [][EmptyInputRun => UNCHANGED <<temp_dir, output_dir>>]_vars

\* the run on a zero-length file has ended
C12_Witness ==
    /\ EmptyInputRun
    /\ mpc = "exited"

-----------------------------------------------------------------------------
(* Calls of QTIGenerator._safe_title                                       *)

MaxTitle == 3

TitleChars == { "a", "b", "<", ">", "&", "\"" }

\* texts of up to MaxTitle characters, and two texts longer than the default
\* max_length
TitleTexts ==
    UNION { [1..n -> TitleChars] : n \in 0..MaxTitle }
    \cup { [i \in 1..(DefaultMaxLength + 1) |-> "a"],
           [i \in 1..(DefaultMaxLength + 2) |-> IF i = 2 THEN "&" ELSE "b"] }

TitleMaxLengths == 0..MaxTitle \cup {DefaultMaxLength}

InitTitle ==
    /\ ParserIdle
    /\ QuestionIdle
    /\ BuilderIdle
    /\ MainIdle
    /\ title_text \in TitleTexts
    /\ title_max_length \in TitleMaxLengths
    /\ title = NoTitle
    /\ name_index = 0
    /\ name_result = <<>>

\* self._safe_title(text, max_length)
CallSafeTitle ==
    /\ title = NoTitle
    /\ title' = SafeTitle(title_text, title_max_length)
    /\ UNCHANGED <<title_text, title_max_length, name_index, name_result>>
    /\ UNCHANGED <<parserVars, questionVars, builderVars, mainVars>>

NextTitle == CallSafeTitle

SpecTitle == InitTitle /\ [][NextTitle]_vars

\* the text without the characters <, >, & and "
Stripped(text) == SelectSeq(text, LAMBDA c : c \notin {"<", ">", "&", "\""})

Ellipsis == <<".", ".", ".">>

\* C13: _safe_title returns the text with every <, >, & and " removed, cut
\* to its first max_length characters followed by '...' when it is longer
\* than max_length (the result then ends with '...' and has at most
\* max_length + 3 characters), unchanged otherwise, and never an empty
\* result: the placeholder stands for an empty stripped text.
C13_SafeTitle ==
    title # NoTitle =>
        LET stripped == Stripped(title_text)
        IN /\ Len(stripped) > title_max_length =>
                 /\ title = SubSeq(stripped, 1, title_max_length) \o Ellipsis
                 /\ EndsWith(title, Ellipsis)
                 /\ Len(title) <= title_max_length + 3
           /\ (Len(stripped) <= title_max_length /\ stripped # <<>>) => title = stripped
           /\ stripped = <<>> => title = <<"Pregunta sin título">>
           /\ title # <<>>

\* a text with markup that is cut after the markup is removed
C13_Witness ==
    /\ title # NoTitle
    /\ Stripped(title_text) # title_text
    /\ Len(Stripped(title_text)) > title_max_length
    /\ title_max_length > 0
    /\ EndsWith(title, Ellipsis)

-----------------------------------------------------------------------------
(* The file name of an item: f"question_{index:03d}_{item_id}.xml"         *)

MaxIndex == 1000

InitFilename ==
    /\ ParserIdle
    /\ QuestionIdle
    /\ BuilderIdle
    /\ MainIdle
    /\ title_text = <<>>
    /\ title_max_length = 0
    /\ title = NoTitle
    /\ name_index \in 1..MaxIndex
    /\ name_result = <<>>

\* lines 368-369, for the index enumerate(questions, 1) gives the question
FormatFilename ==
    /\ name_result = <<>>
    /\ \E hex \in UuidHex : name_result' = ItemFilename(name_index, ItemId(hex))
    /\ UNCHANGED <<title_text, title_max_length, title, name_index>>
    /\ UNCHANGED <<parserVars, questionVars, builderVars, mainVars>>

NextFilename == FormatFilename

SpecFilename == InitFilename /\ [][NextFilename]_vars

\* the number a sequence of decimal digits denotes
DigitValue(d) == (CHOOSE i \in DOMAIN Digits : Digits[i] = d) - 1

RECURSIVE DecimalValue(_)
DecimalValue(ds) ==
    IF ds = <<>> THEN 0
    ELSE 10 * DecimalValue(SubSeq(ds, 1, Len(ds) - 1)) + DigitValue(ds[Len(ds)])

IsDigit(c) == \E i \in DOMAIN Digits : Digits[i] = c

\* the name is question_<three digits>_<item id>.xml and the digits denote i
ThreeDigitName(name, i) ==
    /\ Len(name) = 8
    /\ name[1] = "question_"
    /\ \A k \in 2..4 : IsDigit(name[k])
    /\ DecimalValue(SubSeq(name, 2, 4)) = i
    /\ name[5] = "_"
    /\ name[6] = "ITEM_"
    /\ name[8] = ".xml"

\* C14: the question at 1-based position i is written to a file named
\* question_<index>_<itemId>.xml whose index is exactly three decimal digits,
\* zero-padded and equal to i.
C14_Original ==
    name_result # <<>> => ThreeDigitName(name_result, name_index)

\* the same for the positions up to 999
ThreeDigitsUpTo999 ==
    (name_result # <<>> /\ name_index <= 999) => ThreeDigitName(name_result, name_index)

\* build_package names the i-th item file by the position i
NamedByPosition ==
    \A i \in DOMAIN resources : resources[i][2] = ItemFilename(i, resources[i][1])

-----------------------------------------------------------------------------
(* build_package for output names of every form                            *)

\* output names: plain, with the extension, with the extension in upper
\* case, empty, and a name inside the staging directory
OutputNames ==
    PlainNames \cup { <<>>, <<"o",".","Z","I","P">>, StagingPrefix \o <<"o">> }

InitBuildNames ==
    /\ ParserIdle
    /\ QuestionIdle
    /\ MainIdle
    /\ CallsIdle
    /\ builds = 1
    /\ build_questions \in QuestionLists
    /\ output_filename \in OutputNames
    /\ temp_dir \in { NoDirectory, [exists |-> TRUE, files |-> {StaleFile}] }
    /\ output_dir = {}
    /\ resources = <<>>
    /\ index = 0
    /\ question = NoQuestion
    /\ xml_content = NoXml
    /\ output_path = <<>>
    /\ error = ""
    /\ bpc = "call"

SpecBuildNames == InitBuildNames /\ [][NextBuild]_vars

\* C15: a build_package call that returns normally returns a path that ends
\* in .zip ('.zip' is appended exactly when the requested name does not end
\* with it) and at which an archive file exists after the call, staging
\* cleanup included.
C15_Original ==
    bpc = "returned" =>
        /\ EndsWith(output_path, ZipSuffix)
        /\ output_path = (IF EndsWith(output_filename, ZipSuffix)
                          THEN output_filename
                          ELSE output_filename \o ZipSuffix)
        /\ ExistsAt(output_path)

\* the same for the names that lead out of the staging directory
ArchiveAtReturnedPath ==
    (bpc = "returned" /\ ~InStaging(output_filename)) =>
        /\ EndsWith(output_path, ZipSuffix)
        /\ output_path = (IF EndsWith(output_filename, ZipSuffix)
                          THEN output_filename
                          ELSE output_filename \o ZipSuffix)
        /\ ExistsAt(output_path)
        /\ ArchiveAt(output_path).complete

-----------------------------------------------------------------------------
(* Further properties of parse_file                                        *)

\* the next line is an ANSWER line and the text or the options are empty
AnswerToDiscard ==
    /\ pc = "loop"
    /\ line_number < Len(lines)
    /\ AnswerMatch(lines[line_number + 1])
    /\ (current_question_text = <<>> \/ current_options = <<>>)

\* C16: an ANSWER line read while the accumulated text is empty or no option
\* is accumulated is discarded without state change: text, options and the
\* records so far stay as they were and scanning goes on with the next line.
C16_AnswerDiscarded ==
    [][AnswerToDiscard =>
          /\ questions' = questions
          /\ current_question_text' = current_question_text
          /\ current_options' = current_options
          /\ line_number' = line_number + 1
          /\ pc' = "loop"]_vars

\* an ANSWER line was read and accumulated text or options are still there
C16_Witness ==
    /\ pc = "loop"
    /\ line_number > 0
    /\ AnswerMatch(lines[line_number])
    /\ (current_question_text # <<>> \/ current_options # <<>>)

\* the letters of the option lines of a block
OptionLetters(b) == {b.opts[i].letter : i \in DOMAIN b.opts}

\* the text of the last option line of b with the letter
LastOptionText(b, letter) ==
    LET last == CHOOSE i \in DOMAIN b.opts :
                   /\ b.opts[i].letter = letter
                   /\ \A j \in DOMAIN b.opts : b.opts[j].letter = letter => j <= i
    IN b.opts[last].text

\* C17: when an option letter occurs on several option lines of a question,
\* the record maps the letter to the text of the last such line, and the
\* options hold one entry per distinct letter.
C17_LastOptionWins ==
    (/\ pc = "done"
     /\ source_blocks # <<>>
     /\ \A i \in DOMAIN source_blocks : WellFormed(source_blocks[i])) =>
        /\ Len(questions) = Len(source_blocks)
        /\ \A i \in DOMAIN source_blocks :
              /\ Len(questions[i].options) = Cardinality(OptionLetters(source_blocks[i]))
              /\ DictKeySet(questions[i].options) = OptionLetters(source_blocks[i])
              /\ \A letter \in OptionLetters(source_blocks[i]) :
                    DictGet(questions[i].options, letter)
                       = LastOptionText(source_blocks[i], letter)

\* a block with the letter A on two option lines
C17_Witness ==
    /\ pc = "done"
    /\ Len(source_blocks) = 2
    /\ source_blocks[2].opts = <<OptA, OptA2>>
    /\ Len(questions) = 2
    /\ questions[2].options = << <<"A", <<"z">>>> >>

BlankLines == { <<>>, <<" ", "\t">> }

IsBlank(line) == \A i \in DOMAIN line : IsSpace(line[i])

\* raw with a line put after its first i lines
InsertLine(raw, i, line) == SubSeq(raw, 1, i) \o <<line>> \o SubSeq(raw, i + 1, Len(raw))

\* raw without its line i
DeleteLine(raw, i) == SubSeq(raw, 1, i - 1) \o SubSeq(raw, i + 1, Len(raw))

\* C18: inserting or deleting blank (empty or whitespace-only) lines at any
\* position of an input leaves the records parse_file returns unchanged.
C18_BlankLinesIgnored ==
    pc = "done" =>
        /\ \A i \in 0..Len(file_lines), blank \in BlankLines :
              ParseFile(InsertLine(file_lines, i, blank)) = questions
        /\ \A i \in DOMAIN file_lines :
              IsBlank(file_lines[i]) => ParseFile(DeleteLine(file_lines, i)) = questions
        /\ ParseFile(SelectSeq(file_lines, LAMBDA l : ~IsBlank(l))) = questions

\* a blank line between the text and the options of a record
C18_Witness ==
    /\ pc = "done"
    /\ Len(questions) = 1
    /\ \E i \in DOMAIN file_lines :
          /\ IsBlank(file_lines[i])
          /\ StateBefore(lines, i).text # <<>>
          /\ StateBefore(lines, i).options = <<>>
          /\ StateBefore(lines, i).questions = <<>>

-----------------------------------------------------------------------------
(* The simpleChoice elements of an item                                    *)

-----------------------------------------------------------------------------
(* Several build_package calls on one PackageBuilder                       *)

MaxBuilds == 2

\* the lists the calls are made with: no question, or one
RebuildLists == { <<>> } \cup { <<x>> : x \in BuildQuestions }

\* the first call finds the staging directory of an earlier run
InitRebuild ==
    /\ ParserIdle
    /\ QuestionIdle
    /\ MainIdle
    /\ CallsIdle
    /\ builds = 1
    /\ build_questions \in RebuildLists
    /\ output_filename \in PlainNames
    /\ temp_dir = [exists |-> TRUE, files |-> {StaleFile}]
    /\ output_dir = {}
    /\ resources = <<>>
    /\ index = 0
    /\ question = NoQuestion
    /\ xml_content = NoXml
    /\ output_path = <<>>
    /\ error = ""
    /\ bpc = "call"

\* the holder of the PackageBuilder calls build_package again, after the
\* call before has returned or raised (lines 346-357)
BuildPackageAgain ==
    /\ bpc \in {"returned", "raised"}
    /\ builds < MaxBuilds
    /\ builds' = builds + 1
    /\ build_questions' \in RebuildLists
    /\ output_filename' \in PlainNames
    /\ resources' = <<>>
    /\ index' = 0
    /\ question' = NoQuestion
    /\ xml_content' = NoXml
    /\ output_path' = <<>>
    /\ error' = ""
    /\ bpc' = "call"
    /\ UNCHANGED <<temp_dir, output_dir>>
    /\ UNCHANGED <<parserVars, questionVars, mainVars, callVars>>

NextRebuild ==
    \/ BuildPackageAgain
    \/ NextBuild

SpecRebuild == InitRebuild /\ [][NextRebuild]_vars

\* the file is one this build_package call has generated: an item file
\* recorded in resources, written from the question at its position, or the
\* manifest of these resources
OwnFile(f) ==
    \/ /\ f[1] = ManifestFilename
       /\ f[2].kind = "manifest"
       /\ \E hex \in UuidHex : f[2] = ManifestXml(resources, hex)
    \/ \E i \in DOMAIN resources :
          /\ f[1] = resources[i][2]
          /\ f[2].kind = "assessmentItem"
          /\ f[2].identifier = resources[i][1]
          /\ f[2].text = build_questions[i].text

\* C20: build_package starts from an empty staging area: a temp_qti_build
\* left by an earlier or aborted run is destroyed before any item is
\* written, so across a sequence of builds on one PackageBuilder every
\* resulting archive holds only files generated by its own call.
C20_FreshStaging ==
    /\ bpc \in {"items", "zip", "zip_write"} => \A f \in temp_dir.files : OwnFile(f)
    /\ bpc \in {"zip_write", "returned"} =>
          \A f \in ArchiveAt(output_path).entries : OwnFile(f)

\* the second build on the PackageBuilder has returned an archive with an item
C20_Witness ==
    /\ builds = 2
    /\ bpc = "returned"
    /\ Len(resources) = 1
    /\ Cardinality(ArchiveAt(output_path).entries) = 2

-----------------------------------------------------------------------------
(* The records parse_file returns                                          *)

\* the lines of the input that are ANSWER lines once stripped
AnswerLineCount(raw) == Cardinality({i \in DOMAIN raw : AnswerMatch(Strip(raw[i]))})

\* C21: after any sequence of input lines every record of parse_file has
\* non-empty text without leading or trailing whitespace, at least one
\* option, only upper-case letters A-Z as option keys and an answer that is
\* one of its option keys, and there are never more records than ANSWER
\* lines in the input.
C21_RecordsWellFormed ==
    pc \in {"loop", "done"} =>
        /\ \A i \in DOMAIN questions :
              /\ questions[i].text # <<>>
              /\ ~IsSpace(questions[i].text[1])
              /\ ~IsSpace(questions[i].text[Len(questions[i].text)])
              /\ Len(questions[i].options) >= 1
              /\ \A k \in DOMAIN questions[i].options :
                    \E n \in DOMAIN UpperLetters :
                       UpperLetters[n] = questions[i].options[k][1]
              /\ \E k \in DOMAIN questions[i].options :
                    questions[i].options[k][1] = questions[i].answer
        /\ Len(questions) <= AnswerLineCount(file_lines)

\* a file with a padded text line and more ANSWER lines than records
C21_Witness ==
    /\ pc = "done"
    /\ Len(questions) = 1
    /\ AnswerLineCount(file_lines) = 2
    /\ \E i \in DOMAIN file_lines :
          /\ file_lines[i] # <<>>
          /\ IsSpace(file_lines[i][1])
          /\ KindAt(lines, i) = "text"

====
